---- MODULE Spec2Model ----
(***************************************************************************)
(* PBPlanBuilder (planner/core/pb_to_plan.go): the translation of a list   *)
(* of tipb executors into a chain of physical plan nodes, followed by the  *)
(* predicate push-down pass over that chain.                               *)
(*                                                                         *)
(* A plan is a chain (every node has at most one child), kept as a         *)
(* sequence in wire order: element 1 is the deepest leaf, the last element *)
(* is the root; the child of element k is element k-1.  The nil plan is    *)
(* the empty sequence.                                                     *)
(***************************************************************************)
EXTENDS Integers, Sequences, FiniteSets, TLC

\* ---------------------------------------------------------------- bounds
MaxExec == 3
MaxConds == 2
MaxCols == 2
MaxRanges == 2

\* ------------------------------------------------------------- constants
\* tablecodec.RecordRowKeyLen, the length of the record-key prefix.
RecordRowKeyLen == 19

\* ---------------------------------------------------------------- errors
Error(kind, tp, id, name) == [kind |-> kind, tp |-> tp, id |-> id, name |-> name]
NoErr == Error("nil", "", 0, "")

\* --------------------------------------------------------------- catalog
ColumnInfo(id, name, tp) == [ID |-> id, Name |-> name, FieldType |-> tp]

SlowLogColumns == << ColumnInfo(1, "time", "datetime"), ColumnInfo(2, "query", "varchar") >>

TableInfo(id, name, cols, cluster, hasDB) ==
    [ID |-> id, Name |-> name, Columns |-> cols, IsClusterTable |-> cluster, HasSchema |-> hasDB]

\* b.is: the tables of the information schema the builder was created with.
InfoSchemaTables ==
    { TableInfo(1, "cluster_slow_query", SlowLogColumns, TRUE, TRUE),
      TableInfo(2, "cluster_processlist", SlowLogColumns, TRUE, TRUE),
      TableInfo(3, "t", SlowLogColumns, FALSE, TRUE),
      TableInfo(4, "orphan", SlowLogColumns, FALSE, FALSE) }

ClusterTableSlowLog == "CLUSTER_SLOW_QUERY"

ToUpper(s) ==
    CASE s = "cluster_slow_query" -> "CLUSTER_SLOW_QUERY"
      [] s = "cluster_processlist" -> "CLUSTER_PROCESSLIST"
      [] s = "t" -> "T"
      [] s = "orphan" -> "ORPHAN"
      [] OTHER -> s

TableExists(id) == \E t \in InfoSchemaTables : t.ID = id
TableByID(id) == CHOOSE t \in InfoSchemaTables : t.ID = id

\* ------------------------------------------------------------ plan nodes
NoExtractor == [Desc |-> FALSE, timeRanges |-> <<>>, absorbed |-> <<>>]

Node(kind) ==
    [kind |-> kind, id |-> 0, Conditions |-> <<>>, Table |-> 0, DBName |-> "",
     Columns |-> <<>>, schema |-> <<>>, hasExtractor |-> FALSE,
     Extractor |-> NoExtractor, Count |-> 0, exprs |-> <<>>]

\* ------------------------------------------------- expression collaborator
\* A decoded predicate: op names the shape of the condition, Index is the
\* offset of the column it refers to, UniqueID is 0 until it is rebound.
Expr(op, index) == [op |-> op, Index |-> index, UniqueID |-> 0]

RECURSIVE PBToExprsFrom(_, _, _)
PBToExprsFrom(pbs, n, tps) ==
    IF n > Len(pbs) THEN NoErr
    ELSE IF pbs[n].Index >= Len(tps) THEN Error("ExpressionDecodeError", "", pbs[n].Index, "")
    ELSE PBToExprsFrom(pbs, n + 1, tps)

\* expression.PBToExprs: decodes against the type context, or fails.
PBToExprs(pbs, tps) ==
    LET e == PBToExprsFrom(pbs, 1, tps)
    IN  [exprs |-> IF e = NoErr THEN [j \in 1..Len(pbs) |-> Expr(pbs[j].op, pbs[j].Index)] ELSE <<>>,
         err |-> e]

\* ----------------------------------------------------- column resolution
ColumnPos(cols, id) == { j \in 1..Len(cols) : cols[j].ID = id }

RECURSIVE convertColumnInfoFrom(_, _, _, _, _)
convertColumnInfoFrom(tblInfo, pbColumns, n, columns, tps) ==
    IF n > Len(pbColumns) THEN [columns |-> columns, tps |-> tps, err |-> NoErr]
    ELSE LET found == ColumnPos(tblInfo.Columns, pbColumns[n])
         IN  IF found = {}
             THEN [columns |-> columns, tps |-> tps,
                   err |-> Error("ColumnNotFound", "", pbColumns[n], tblInfo.Name)]
             ELSE LET colInfo == tblInfo.Columns[CHOOSE j \in found : \A l \in found : j <= l]
                  IN  convertColumnInfoFrom(tblInfo, pbColumns, n + 1,
                                            Append(columns, colInfo),
                                            Append(tps, colInfo.FieldType))

\* A resolver that stores the types it resolved before the missing column.
convertColumnInfo_StoresPartial(tblInfo, pbColumns, bTps) ==
    LET r == convertColumnInfoFrom(tblInfo, pbColumns, 1, <<>>, <<>>)
    IN  [columns |-> IF r.err = NoErr THEN r.columns ELSE <<>>, err |-> r.err, tps |-> r.tps]

\* convertColumnInfo: the new b.tps is bTps unless every column resolves.
convertColumnInfo(tblInfo, pbColumns, bTps) ==
    LET r == convertColumnInfoFrom(tblInfo, pbColumns, 1, <<>>, <<>>)
    IN  [columns |-> IF r.err = NoErr THEN r.columns ELSE <<>>, err |-> r.err,
         tps |-> IF r.err = NoErr THEN r.tps ELSE bTps]

\* The requested columns that match catalog column col, in request order.
RECURSIVE MatchesOf(_, _, _)
MatchesOf(col, columns, n) ==
    IF n > Len(columns) THEN <<>>
    ELSE (IF col.ID = columns[n].ID THEN << col.ID >> ELSE <<>>) \o MatchesOf(col, columns, n + 1)

RECURSIVE SchemaIDsFrom(_, _, _)
SchemaIDsFrom(tblInfo, columns, m) ==
    IF m > Len(tblInfo.Columns) THEN <<>>
    ELSE MatchesOf(tblInfo.Columns[m], columns, 1) \o SchemaIDsFrom(tblInfo, columns, m + 1)

\* buildTableScanSchema: outer loop over the catalog columns, inner loop over
\* the resolved columns; one freshly allocated UniqueID per match.
buildTableScanSchema(tblInfo, columns, nextID) ==
    LET ids == SchemaIDsFrom(tblInfo, columns, 1)
    IN  [j \in 1..Len(ids) |-> [UniqueID |-> nextID + j, ID |-> ids[j]]]

\* ---------------------------------------------------------- time ranges
\* A key is kept by what the codec reads from it: its length, whether it
\* has the record prefix, whether its first handle column decodes as a
\* datetime, and that datetime in microseconds since the epoch.
Key(len, prefix, colOK, dt) == [len |-> len, prefix |-> prefix, colOK |-> colOK, dt |-> dt]

\* tablecodec.DecodeRowKey
DecodeRowKey(key) ==
    IF key.len < RecordRowKeyLen \/ ~key.prefix
    THEN [handle |-> key, err |-> Error("InvalidKey", "", 0, "")]
    ELSE [handle |-> key, err |-> NoErr]

\* decodeToTime: DecodeOne of the handle's first column, then UnixNano.
decodeToTime(handle) ==
    IF ~handle.colOK THEN [t |-> 0, err |-> Error("DecodeOneError", "", 0, "")]
    ELSE [t |-> handle.dt * 1000, err |-> NoErr]

\* A decoder for which a row key that does not decode is an error.
DecodeBoundary_RowKeyFatal(key) ==
    LET h == DecodeRowKey(key)
    IN  IF h.err # NoErr THEN [t |-> 0, err |-> h.err] ELSE decodeToTime(h.handle)

\* One side of a range (lines 139-148 and 149-158).
DecodeBoundary(key) ==
    LET h == DecodeRowKey(key)
    IN  IF h.err # NoErr THEN [t |-> 0, err |-> NoErr] ELSE decodeToTime(h.handle)

\* The guard of line 138.
PassesLengthCheck(kr) ==
    kr.Start.len >= RecordRowKeyLen /\ kr.Start.len >= RecordRowKeyLen

RECURSIVE decodeTimeRangesFrom(_, _, _)
decodeTimeRangesFrom(keyRanges, n, krs) ==
    IF n > Len(keyRanges) THEN [krs |-> krs, err |-> NoErr]
    ELSE IF PassesLengthCheck(keyRanges[n])
    THEN LET s == DecodeBoundary(keyRanges[n].Start)
             e == DecodeBoundary(keyRanges[n].End)
         IN  IF s.err # NoErr THEN [krs |-> <<>>, err |-> s.err]
             ELSE IF e.err # NoErr THEN [krs |-> <<>>, err |-> e.err]
             ELSE decodeTimeRangesFrom(keyRanges, n + 1, Append(krs, << s.t, e.t >>))
    ELSE decodeTimeRangesFrom(keyRanges, n + 1, krs)

decodeTimeRanges(keyRanges) == decodeTimeRangesFrom(keyRanges, 1, <<>>)

\* SlowQueryExtractor.setTimeRange, once per decoded pair, in order.
setTimeRanges(extractor, trs) == [extractor EXCEPT !.timeRanges = @ \o trs]

\* ------------------------------------------------------------- builders
Built(p, err, tps, nextID) == [p |-> p, err |-> err, tps |-> tps, nextID |-> nextID]

pbToTableScan(e, bTps, nextID, bRanges) ==
    IF ~TableExists(e.TableId)
    THEN Built(Node("nil"), Error("TableNotFound", "", e.TableId, ""), bTps, nextID)
    ELSE LET tbl == TableByID(e.TableId) IN
    IF ~tbl.HasSchema
    THEN Built(Node("nil"), Error("DatabaseNotFound", "", e.TableId, ""), bTps, nextID)
    ELSE IF ~tbl.IsClusterTable
    THEN Built(Node("nil"), Error("NotAVirtualTable", "", 0, tbl.Name), bTps, nextID)
    ELSE LET c == convertColumnInfo(tbl, e.Columns, bTps) IN
    IF c.err # NoErr
    THEN Built(Node("nil"), c.err, c.tps, nextID)
    ELSE LET schema == buildTableScanSchema(tbl, c.columns, nextID)
             p == [Node("MemTable") EXCEPT !.Table = tbl.ID, !.DBName = "information_schema",
                                           !.Columns = c.columns, !.schema = schema]
             id2 == nextID + Len(schema)
         IN  IF ToUpper(tbl.Name) = ClusterTableSlowLog
             THEN LET trs == decodeTimeRanges(bRanges)
                  IN  IF trs.err # NoErr
                      THEN Built(Node("nil"), trs.err, c.tps, id2)
                      ELSE Built([p EXCEPT !.hasExtractor = TRUE,
                                           !.Extractor = setTimeRanges(
                                               [NoExtractor EXCEPT !.Desc = e.Desc], trs.krs)],
                                 NoErr, c.tps, id2)
             ELSE Built(p, NoErr, c.tps, id2)

pbToSelection(e, bTps, nextID) ==
    LET c == PBToExprs(e.Conditions, bTps)
    IN  IF c.err # NoErr THEN Built(Node("nil"), c.err, bTps, nextID)
        ELSE Built([Node("Selection") EXCEPT !.Conditions = c.exprs], NoErr, bTps, nextID)

pbToTopN(e, bTps, nextID) ==
    LET c == PBToExprs(e.exprs, bTps)
    IN  IF c.err # NoErr THEN Built(Node("nil"), c.err, bTps, nextID)
        ELSE Built([Node("TopN") EXCEPT !.exprs = c.exprs, !.Count = e.Count], NoErr, bTps, nextID)

pbToLimit(e, bTps, nextID) ==
    Built([Node("Limit") EXCEPT !.Count = e.Count], NoErr, bTps, nextID)

\* buildAggSchema: one freshly allocated column per aggregate function.
buildAggSchema(aggFuncs, nextID) ==
    [j \in 1..Len(aggFuncs) |-> [UniqueID |-> nextID + j, ID |-> 0]]

pbToAgg(e, isStreamAgg, bTps, nextID) ==
    LET c == PBToExprs(e.exprs, bTps)
    IN  IF c.err # NoErr THEN Built(Node("nil"), c.err, bTps, nextID)
        ELSE Built([Node(IF isStreamAgg THEN "StreamAgg" ELSE "HashAgg")
                        EXCEPT !.exprs = c.exprs, !.schema = buildAggSchema(c.exprs, nextID)],
                   NoErr, bTps, nextID + Len(c.exprs))

pbToKill(e, bTps, nextID) ==
    Built([Node("SimpleWrapper") EXCEPT !.Count = e.Count], NoErr, bTps, nextID)

\* A dispatch that falls back to a Limit for a kind it does not know.
pbToPhysicalPlan_Fallback(e, bTps, nextID, bRanges) ==
    CASE e.Tp = "TypeTableScan" -> pbToTableScan(e, bTps, nextID, bRanges)
      [] e.Tp = "TypeSelection" -> pbToSelection(e, bTps, nextID)
      [] e.Tp = "TypeTopN" -> pbToTopN(e, bTps, nextID)
      [] e.Tp = "TypeAggregation" -> pbToAgg(e, FALSE, bTps, nextID)
      [] e.Tp = "TypeStreamAgg" -> pbToAgg(e, TRUE, bTps, nextID)
      [] e.Tp = "TypeKill" -> pbToKill(e, bTps, nextID)
      [] OTHER -> pbToLimit(e, bTps, nextID)

pbToPhysicalPlan(e, bTps, nextID, bRanges) ==
    CASE e.Tp = "TypeTableScan" -> pbToTableScan(e, bTps, nextID, bRanges)
      [] e.Tp = "TypeSelection" -> pbToSelection(e, bTps, nextID)
      [] e.Tp = "TypeTopN" -> pbToTopN(e, bTps, nextID)
      [] e.Tp = "TypeLimit" -> pbToLimit(e, bTps, nextID)
      [] e.Tp = "TypeAggregation" -> pbToAgg(e, FALSE, bTps, nextID)
      [] e.Tp = "TypeStreamAgg" -> pbToAgg(e, TRUE, bTps, nextID)
      [] e.Tp = "TypeKill" -> pbToKill(e, bTps, nextID)
      [] OTHER -> Built(Node("nil"), Error("UnsupportedExecutorKind", e.Tp, 0, ""), bTps, nextID)

\* ------------------------------------------------------------ extractor
\* The class of conditions SlowQueryExtractor turns into its own constraints.
AbsorbedOps == {"time_range"}

IsAbsorbed(p) == p.op \in AbsorbedOps
IsResidual(p) == p.op \notin AbsorbedOps

\* MemTablePredicateExtractor.Extract: consumes what it understands into its
\* own state and returns the rest, in order.
Extract(extractor, schema, names, predicates) ==
    [residual |-> SelectSeq(predicates, IsResidual),
     extractor |-> [extractor EXCEPT !.absorbed = @ \o SelectSeq(predicates, IsAbsorbed)]]

\* ----------------------------------------------------- predicate pushdown
PushDown(predicates, plan, calls, panic) ==
    [predicates |-> predicates, plan |-> plan, calls |-> calls, panic |-> panic]

Panic == PushDown(<<>>, <<>>, <<>>, TRUE)

\* Lines 332-340: one FieldName per resolved column, in memTable.Columns order.
FieldNames(memTable) == [j \in 1..Len(memTable.Columns) |-> memTable.Columns[j].Name]

\* Lines 343-347: schemaCols[cols[i].Index] is out of range.
RebindOutOfRange(schemaCols, predicates) ==
    \E j \in 1..Len(predicates) : predicates[j].Index + 1 > Len(schemaCols)

\* Lines 343-347: every column of the predicates takes the UniqueID of the
\* schema column at its Index.
Rebind(schemaCols, predicates) ==
    [j \in 1..Len(predicates) |->
        [predicates[j] EXCEPT !.UniqueID = schemaCols[predicates[j].Index + 1].UniqueID]]

\* Lines 327-349.  The scan is returned with whatever is beneath it.
MemTableCase(chain, k, predicates) ==
    LET memTable == chain[k] IN
    IF ~memTable.hasExtractor
    THEN PushDown(predicates, SubSeq(chain, 1, k), <<>>, FALSE)
    ELSE IF RebindOutOfRange(memTable.schema, predicates) THEN Panic
    ELSE LET names == FieldNames(memTable)
             rebound == Rebind(memTable.schema, predicates)
             x == Extract(memTable.Extractor, memTable.schema, names, rebound)
         IN  PushDown(x.residual,
                      Append(SubSeq(chain, 1, k - 1), [memTable EXCEPT !.Extractor = x.extractor]),
                      << [scan |-> memTable.id, predicates |-> rebound, names |-> names,
                          schema |-> memTable.schema, residual |-> x.residual] >>,
                      FALSE)

\* A pass that elides every Selection, whatever its child left over.
SelectionRewire_DropsResidual(selection, r, predicates) ==
    IF r.panic THEN Panic ELSE PushDown(predicates, r.plan, r.calls, FALSE)

\* A pass that keeps every Selection, even one left without conditions.
SelectionRewire_NeverElides(selection, r, predicates) ==
    IF r.panic THEN Panic
    ELSE PushDown(predicates, Append(r.plan, [selection EXCEPT !.Conditions = r.predicates]),
                  r.calls, FALSE)

\* A pass that keeps a Selection's conditions as they were instead of the residual.
SelectionRewire_KeepsConditions(selection, r, predicates) ==
    IF r.panic THEN Panic
    ELSE IF Len(r.predicates) > 0
    THEN PushDown(predicates, Append(r.plan, selection), r.calls, FALSE)
    ELSE PushDown(predicates, r.plan, r.calls, FALSE)

\* Lines 353-358: r is what the recursion into the child returned.
SelectionRewire(selection, r, predicates) ==
    IF r.panic THEN Panic
    ELSE IF Len(r.predicates) > 0
    THEN PushDown(predicates, Append(r.plan, [selection EXCEPT !.Conditions = r.predicates]),
                  r.calls, FALSE)
    ELSE PushDown(predicates, r.plan, r.calls, FALSE)

\* A default case that threads its incoming predicates through to its child.
DefaultChildPredicates_Threads(predicates) == predicates

\* Line 361: what the default case hands to its child.
DefaultChildPredicates(predicates) == <<>>

\* Lines 361-364: r is what the recursion into the child returned.
DefaultRewire(p, r, predicates) ==
    IF r.panic THEN Panic
    ELSE PushDown(predicates, Append(r.plan, p), r.calls, FALSE)

RECURSIVE predicatePushDown(_, _, _)
predicatePushDown(chain, k, predicates) ==
    IF k = 0 THEN PushDown(predicates, <<>>, <<>>, FALSE)
    ELSE CASE chain[k].kind = "MemTable" -> MemTableCase(chain, k, predicates)
           [] chain[k].kind = "Selection" ->
                \* p.Children()[0] of a node without children is out of range.
                IF k = 1 THEN Panic
                ELSE SelectionRewire(chain[k],
                                     predicatePushDown(chain, k - 1, chain[k].Conditions),
                                     predicates)
           [] OTHER ->
                IF k > 1
                THEN DefaultRewire(chain[k],
                                   predicatePushDown(chain, k - 1, DefaultChildPredicates(predicates)),
                                   predicates)
                ELSE PushDown(predicates, << chain[k] >>, <<>>, FALSE)

\* ------------------------------------------------------------- requests
SeqsUpTo(S, n) == UNION { [1..m -> S] : m \in 0..n }

Exec(tp) ==
    [Tp |-> tp, TableId |-> 0, Columns |-> <<>>, Desc |-> FALSE,
     Conditions |-> <<>>, exprs |-> <<>>, Count |-> 0]

PBExpr(op, index) == [op |-> op, Index |-> index]

ScanExec(tableId, columns, desc) ==
    [Exec("TypeTableScan") EXCEPT !.TableId = tableId, !.Columns = columns, !.Desc = desc]
SelExec(conds) == [Exec("TypeSelection") EXCEPT !.Conditions = conds]

WireTableIds == 1..5
WireColumnIds == 1..3
PBConds == { PBExpr(op, ix) : op \in {"time_range", "eq", "like"}, ix \in 0..(MaxCols - 1) }

\* The descriptors the chains are made of.
ChainExecs ==
    { ScanExec(1, << 1 >>, FALSE), ScanExec(2, << 1 >>, FALSE), ScanExec(5, << 1 >>, FALSE) }
    \cup { SelExec(c) : c \in { <<>>, << PBExpr("time_range", 0) >>, << PBExpr("eq", 0) >>,
                                << PBExpr("time_range", 0), PBExpr("eq", 0) >> } }
    \cup { [Exec("TypeTopN") EXCEPT !.exprs = << PBExpr("col", 0) >>, !.Count = 1],
           [Exec("TypeLimit") EXCEPT !.Count = 1],
           [Exec("TypeAggregation") EXCEPT !.exprs = << PBExpr("count", 0) >>],
           [Exec("TypeStreamAgg") EXCEPT !.exprs = << PBExpr("count", 0) >>],
           [Exec("TypeKill") EXCEPT !.Count = 1],
           Exec("TypeIndexScan"), Exec("TypeJoin") }

ShortKey == Key(RecordRowKeyLen - 1, TRUE, TRUE, 1000000)
Keys ==
    { ShortKey,
      Key(RecordRowKeyLen + 8, FALSE, TRUE, 1000000),
      Key(RecordRowKeyLen + 8, TRUE, FALSE, 0),
      Key(RecordRowKeyLen + 8, TRUE, TRUE, 1000000),
      Key(RecordRowKeyLen + 8, TRUE, TRUE, 2000000) }
KeyRanges == [Start : Keys, End : Keys]

\* ---------------------------------------------------------------- state
VARIABLES executors, ranges, pc, i, src, tps, nextID, result, err, calls

vars == << executors, ranges, pc, i, src, tps, nextID, result, err, calls >>

\* NewPBPlanBuilder, and the entry of Build.
Fresh ==
    /\ pc = "build"
    /\ i = 0
    /\ src = <<>>
    /\ tps = <<>>
    /\ nextID = 0
    /\ result = <<>>
    /\ err = NoErr
    /\ calls = <<>>

\* Chains of every shape.
InitChains ==
    /\ executors \in SeqsUpTo(ChainExecs, MaxExec)
    /\ ranges = <<>>

\* One scan of any table with any requested columns, alone or after a scan.
InitScans ==
    /\ \E t \in WireTableIds, cols \in SeqsUpTo(WireColumnIds, MaxCols), d \in BOOLEAN,
          pre \in { <<>>, << ScanExec(2, << 1 >>, FALSE) >> } :
          executors = pre \o << ScanExec(t, cols, d) >>
    /\ ranges = <<>>

\* A slow-log scan of existing columns under one Selection.
InitFilters ==
    /\ \E cols \in SeqsUpTo({1, 2}, MaxCols), conds \in SeqsUpTo(PBConds, MaxConds) :
          executors = << ScanExec(1, cols, FALSE), SelExec(conds) >>
    /\ ranges = <<>>

\* A slow-log scan with key ranges.
InitRanges ==
    /\ executors = << ScanExec(1, << 1 >>, FALSE) >>
    /\ ranges \in SeqsUpTo(KeyRanges, MaxRanges)

Init == Fresh /\ (InitChains \/ InitScans \/ InitFilters \/ InitRanges)

\* One iteration of the loop of Build (lines 56-65).
BuildLoop ==
    /\ pc = "build"
    /\ i < Len(executors)
    /\ LET r == pbToPhysicalPlan(executors[i + 1], tps, nextID, ranges) IN
       /\ tps' = r.tps
       /\ nextID' = r.nextID
       /\ IF r.err # NoErr
          THEN /\ pc' = "done"
               /\ err' = r.err
               /\ result' = <<>>
               /\ UNCHANGED << i, src >>
          ELSE /\ src' = Append(src, [r.p EXCEPT !.id = i + 1])
               /\ i' = i + 1
               /\ UNCHANGED << pc, err, result >>
    /\ UNCHANGED << executors, ranges, calls >>

\* Lines 66-67: the pushdown pass over the assembled chain, and the return.
BuildReturn ==
    /\ pc = "build"
    /\ i = Len(executors)
    /\ LET r == predicatePushDown(src, Len(src), <<>>) IN
       IF r.panic
       THEN /\ pc' = "panic"
            /\ UNCHANGED << result, calls >>
       ELSE /\ pc' = "done"
            /\ result' = r.plan
            /\ calls' = r.calls
    /\ UNCHANGED << executors, ranges, i, src, tps, nextID, err >>

Next == BuildLoop \/ BuildReturn

Spec == Init /\ [][Next]_vars

\* ------------------------------------------------------------ properties
Returned == pc = "done" /\ err = NoErr

Strip(p) == [op |-> p.op, Index |-> p.Index]
StripAll(ps) == [j \in 1..Len(ps) |-> Strip(ps[j])]

Occ(ps, key) == Cardinality({ j \in 1..Len(ps) : Strip(ps[j]) = key })

RECURSIVE SelectionOcc(_, _, _)
SelectionOcc(plan, n, key) ==
    IF n > Len(plan) THEN 0
    ELSE (IF plan[n].kind = "Selection" THEN Occ(plan[n].Conditions, key) ELSE 0)
         + SelectionOcc(plan, n + 1, key)

RECURSIVE AbsorbedOcc(_, _, _)
AbsorbedOcc(cs, n, key) ==
    IF n > Len(cs) THEN 0
    ELSE Occ(cs[n].predicates, key) - Occ(cs[n].residual, key) + AbsorbedOcc(cs, n + 1, key)

ConditionKeys(plan) ==
    UNION { { Strip(plan[k].Conditions[j]) : j \in 1..Len(plan[k].Conditions) } : k \in 1..Len(plan) }

IsExtractorScan(n) == n.kind = "MemTable" /\ n.hasExtractor
IsSelection(n) == n.kind = "Selection"

Ids(plan) == { plan[q].id : q \in 1..Len(plan) }
PosOf(plan, id) == CHOOSE q \in 1..Len(plan) : plan[q].id = id

\* C1: every predicate of a Selection of the assembled chain is, once Build
\* has returned, either in the condition list of a Selection of the returned
\* plan or was handed to Extract and left out of its residual; counted with
\* multiplicity, so that no occurrence is lost.
C1_NoPredicateDiscarded ==
    Returned =>
        \A key \in ConditionKeys(src) :
            SelectionOcc(src, 1, key) <= SelectionOcc(result, 1, key) + AbsorbedOcc(calls, 1, key)

\* Two stacked Selections above an extractor scan, the lower one partly absorbed.
C1_Witness ==
    /\ Returned
    /\ Len(src) = 3
    /\ IsExtractorScan(src[1]) /\ IsSelection(src[2]) /\ IsSelection(src[3])
    /\ Len(src[2].Conditions) = 2 /\ Len(src[3].Conditions) > 0
    /\ Len(result) = 3 /\ Len(result[2].Conditions) = 1

\* What Extract was called with for the scan with this id, and what it returned.
CallsFor(id) == { c \in 1..Len(calls) : calls[c].scan = id }

\* What C2 says of the Selection at wire position k, the scan being at k-1.
SelectionAboveScanLaw(k) ==
    /\ Cardinality(CallsFor(k - 1)) = 1
    /\ LET c == calls[CHOOSE x \in CallsFor(k - 1) : TRUE]
           R == SelectSeq(c.predicates, IsResidual)
           q == PosOf(result, k - 1)
       IN  /\ StripAll(c.predicates) = StripAll(src[k].Conditions)
           /\ c.residual = R
           /\ (k - 1) \in Ids(result)
           /\ result[q] = [src[k - 1] EXCEPT !.Extractor = result[q].Extractor]
           /\ R = <<>> =>
                /\ k \notin Ids(result)
                /\ q < Len(result) =>
                     /\ result[q + 1].id > k
                     /\ \A m \in (k + 1)..(result[q + 1].id - 1) : m \notin Ids(result)
                /\ (k < Len(src) /\ (k + 1) \in Ids(result)) => result[q + 1].id = k + 1
           /\ R # <<>> =>
                /\ Cardinality({ z \in 1..Len(result) : result[z].id = k }) = 1
                /\ q < Len(result)
                /\ result[q + 1].id = k
                /\ IsSelection(result[q + 1])
                /\ result[q + 1].Conditions = R

NoScanAbove(k) == \A m \in (k + 1)..Len(src) : src[m].kind # "MemTable"

\* C2 as stated: a Selection directly above an extractor scan, at any position
\* of the chain, has its conditions handed to Extract; with an empty residual
\* the Selection is gone from the returned chain, the scan is as it was built
\* (only its extractor has absorbed) and the node above it is the Selection's
\* nearest surviving ancestor; with a non-empty residual R the returned chain
\* holds that Selection once, right above the scan, with conditions R in the
\* order Extract returned them.
C2_AtAnyPosition ==
    Returned =>
        \A k \in 2..Len(src) :
            (IsSelection(src[k]) /\ IsExtractorScan(src[k - 1])) => SelectionAboveScanLaw(k)

\* C2 as amended: the same, for a Selection with no table scan above it in the
\* chain (the pass does not descend beneath a scan).
C2_ElisionAndPartialAbsorption ==
    Returned =>
        \A k \in 2..Len(src) :
            (IsSelection(src[k]) /\ IsExtractorScan(src[k - 1]) /\ NoScanAbove(k)) =>
                SelectionAboveScanLaw(k)

\* A fully absorbed Selection between an extractor scan and a parent.
C2_Witness ==
    /\ Returned
    /\ Len(src) = 3
    /\ IsExtractorScan(src[1]) /\ IsSelection(src[2]) /\ Len(src[2].Conditions) > 0
    /\ ~IsSelection(src[3])
    /\ Len(result) = 2 /\ result[2].id = 3

SecondPass == predicatePushDown(result, Len(result), <<>>)

NoStackedSelections ==
    \A k \in 2..Len(src) : ~(IsSelection(src[k]) /\ IsSelection(src[k - 1]))

\* C3 as stated: a second pass over the returned plan returns the same plan,
\* extractor state included, for every chain.
C3_IdempotentOnEveryChain ==
    Returned => (~SecondPass.panic /\ SecondPass.plan = result)

\* C3 as amended: a second pass over the returned plan returns the same plan,
\* extractor state included, for every chain in which no Selection is the
\* child of another Selection.
C3_IdempotentWithoutStackedSelections ==
    (Returned /\ NoStackedSelections) => (~SecondPass.panic /\ SecondPass.plan = result)

\* A partly absorbed Selection, kept above its extractor scan.
C3_Witness ==
    /\ Returned
    /\ NoStackedSelections
    /\ \E q \in 2..Len(result) :
          /\ IsSelection(result[q]) /\ IsExtractorScan(result[q - 1])
          /\ result[q - 1].Extractor.absorbed # <<>>

\* C10: the assembled chain has one node per descriptor in wire order; the
\* returned chain is that chain with only Selections possibly missing, every
\* other node being the node that was built (a Selection with possibly fewer
\* conditions, a scan whose extractor may have absorbed); every predicate
\* handed to Extract comes from the Selection directly above that scan; and a
\* Selection with conditions whose child is not an extractor scan is kept with
\* its conditions as they were.
C10_OnlySelectionsAboveExtractorScansChange ==
    Returned =>
        /\ Len(src) = Len(executors)
        /\ \A k \in 1..Len(src) : src[k].id = k
        /\ \A q \in 1..Len(result) :
              /\ result[q].id \in 1..Len(src)
              /\ q > 1 => result[q - 1].id < result[q].id
              /\ result[q] = [src[result[q].id] EXCEPT !.Conditions = result[q].Conditions,
                                                        !.Extractor = result[q].Extractor]
              /\ ~IsSelection(result[q]) => result[q].Conditions = <<>>
              /\ ~IsExtractorScan(result[q]) => result[q].Extractor = src[result[q].id].Extractor
        /\ \A k \in 1..Len(src) : k \notin Ids(result) => IsSelection(src[k])
        /\ \A c \in 1..Len(calls) :
              calls[c].predicates # <<>> =>
                  /\ calls[c].scan < Len(src)
                  /\ IsSelection(src[calls[c].scan + 1])
                  /\ StripAll(calls[c].predicates) = StripAll(src[calls[c].scan + 1].Conditions)
        /\ \A k \in 2..Len(src) :
              (IsSelection(src[k]) /\ src[k].Conditions # <<>> /\ ~IsExtractorScan(src[k - 1])) =>
                  /\ k \in Ids(result)
                  /\ result[PosOf(result, k)].Conditions = src[k].Conditions

\* A Selection with an absorbable condition, separated from the extractor scan by a Limit.
C10_Witness ==
    /\ Returned
    /\ Len(src) = 3
    /\ IsExtractorScan(src[1]) /\ src[2].kind = "Limit" /\ IsSelection(src[3])
    /\ \E j \in 1..Len(src[3].Conditions) : IsAbsorbed(src[3].Conditions[j])
    /\ calls # <<>>

Finished == pc \in {"done", "panic"}

\* C4: Build completes, with either a plan and no error or an error and no
\* plan; a failure stops the translation at the failing descriptor.
C4_BuildReturnsPlanOrError ==
    /\ pc # "panic"
    /\ pc = "done" => \/ (result # <<>> /\ err = NoErr)
                      \/ (result = <<>> /\ err # NoErr)
    /\ (pc = "done" /\ err # NoErr) => (i < Len(executors) /\ Len(src) = i)

KnownKinds ==
    {"TypeTableScan", "TypeSelection", "TypeTopN", "TypeLimit", "TypeAggregation",
     "TypeStreamAgg", "TypeKill"}

UnsupportedAt == { k \in 1..Len(executors) : executors[k].Tp \notin KnownKinds }
FirstUnsupported == CHOOSE k \in UnsupportedAt : \A m \in UnsupportedAt : k <= m
UnsupportedKind(e) == Error("UnsupportedExecutorKind", e.Tp, 0, "")

\* C5 as stated: with an unrecognized kind anywhere in the list, whatever the
\* other descriptors are, Build ends with no plan and with the
\* UnsupportedExecutorKind error carrying an unrecognized code of the list.
C5_UnsupportedKindAlwaysReported ==
    (Finished /\ UnsupportedAt # {}) =>
        /\ pc = "done"
        /\ result = <<>>
        /\ \E k \in UnsupportedAt : err = UnsupportedKind(executors[k])

\* C5 as amended: with an unrecognized kind anywhere in the list, Build ends
\* with an error and no plan, and never translates past the first unrecognized
\* descriptor; the error is UnsupportedExecutorKind carrying that descriptor's
\* code when no descriptor before it fails, and the earlier failure otherwise.
C5_UnsupportedKindAborts ==
    (Finished /\ UnsupportedAt # {}) =>
        /\ pc = "done"
        /\ result = <<>>
        /\ err # NoErr
        /\ i < FirstUnsupported
        /\ i = FirstUnsupported - 1 => err = UnsupportedKind(executors[FirstUnsupported])
        /\ i < FirstUnsupported - 1 => err.kind # "UnsupportedExecutorKind"

\* An unrecognized kind reported after two descriptors were translated.
C5_Witness ==
    /\ pc = "done"
    /\ i = 2
    /\ err.kind = "UnsupportedExecutorKind"
    /\ err.tp = executors[3].Tp

CatalogColumnIds(t) == { t.Columns[j].ID : j \in 1..Len(t.Columns) }

\* The checks of the leaf scan builder in the order C6 gives them.
ScanVerdict(e) ==
    IF \A t \in InfoSchemaTables : t.ID # e.TableId
    THEN Error("TableNotFound", "", e.TableId, "")
    ELSE LET t == CHOOSE u \in InfoSchemaTables : u.ID = e.TableId IN
    IF ~t.HasSchema THEN Error("DatabaseNotFound", "", e.TableId, "")
    ELSE IF ~t.IsClusterTable THEN Error("NotAVirtualTable", "", 0, t.Name)
    ELSE LET missing == { j \in 1..Len(e.Columns) : e.Columns[j] \notin CatalogColumnIds(t) } IN
    IF missing # {}
    THEN Error("ColumnNotFound", "", e.Columns[CHOOSE j \in missing : \A l \in missing : j <= l], t.Name)
    ELSE NoErr

CatalogTypeOf(e, j) ==
    LET t == CHOOSE u \in InfoSchemaTables : u.ID = e.TableId
    IN  t.Columns[CHOOSE m \in 1..Len(t.Columns) : t.Columns[m].ID = e.Columns[j]].FieldType

ScansBuilt == { k \in 1..Len(src) : src[k].kind = "MemTable" }

\* The type context the last scan that was built asked for.
RequestedTypes ==
    IF ScansBuilt = {} THEN <<>>
    ELSE LET e == executors[CHOOSE k \in ScansBuilt : \A m \in ScansBuilt : m <= k]
         IN  [j \in 1..Len(e.Columns) |-> CatalogTypeOf(e, j)]

ScanFailed == pc = "done" /\ err # NoErr /\ executors[i + 1].Tp = "TypeTableScan"

\* C6: a scan descriptor fails with the first of TableNotFound,
\* DatabaseNotFound, NotAVirtualTable, ColumnNotFound(first missing id, table)
\* that applies; such a failure adds no node and leaves the type context as the
\* last successful scan set it; a scan that is built holds exactly the
\* requested columns in request order, duplicates included, and so does the
\* type context.
C6_ScanChecksInOrderAllOrNothing ==
    /\ ScanFailed =>
          /\ ScanVerdict(executors[i + 1]) # NoErr =>
                (err = ScanVerdict(executors[i + 1]) /\ tps = RequestedTypes)
          /\ ScanVerdict(executors[i + 1]) = NoErr =>
                err.kind \notin {"TableNotFound", "DatabaseNotFound", "NotAVirtualTable",
                                 "ColumnNotFound"}
          /\ Len(src) = i
          /\ result = <<>>
    /\ \A k \in ScansBuilt :
          /\ executors[k].Tp = "TypeTableScan"
          /\ ScanVerdict(executors[k]) = NoErr
          /\ Len(src[k].Columns) = Len(executors[k].Columns)
          /\ \A j \in 1..Len(src[k].Columns) : src[k].Columns[j].ID = executors[k].Columns[j]
    /\ err = NoErr => tps = RequestedTypes

\* A second scan fails on its second column after resolving its first.
C6_Witness ==
    /\ ScanFailed
    /\ i = 1
    /\ tps # <<>>
    /\ err.kind = "ColumnNotFound"
    /\ Len(executors[2].Columns) = 2
    /\ err.id = executors[2].Columns[2]
    /\ executors[2].Columns[1] # executors[1].Columns[1]

ExtractorScans == { k \in 1..Len(src) : IsExtractorScan(src[k]) }

BothSidesLongEnough(kr) == kr.Start.len >= RecordRowKeyLen /\ kr.End.len >= RecordRowKeyLen

\* C7: the decoder emits one pair per key range whose start and end are both
\* at least RecordRowKeyLen long, and none for any other range.
C7_PairIffBothSidesLongEnough ==
    \A k \in ExtractorScans :
        Len(src[k].Extractor.timeRanges) = Len(SelectSeq(ranges, BothSidesLongEnough))

\* The guard the decoder applies (line 138), and the two ways a side can fail.
StartLongEnough(kr) == kr.Start.len >= RecordRowKeyLen
RowKeyDecodes(key) == key.len >= RecordRowKeyLen /\ key.prefix
ColumnFails(key) == RowKeyDecodes(key) /\ ~key.colOK
SideValue(key) == IF RowKeyDecodes(key) /\ key.colOK THEN key.dt * 1000 ELSE 0

ExpectedPairs ==
    LET pass == SelectSeq(ranges, StartLongEnough)
    IN  [j \in 1..Len(pass) |-> << SideValue(pass[j].Start), SideValue(pass[j].End) >>]

FatalSides ==
    { j \in 1..Len(ranges) :
        StartLongEnough(ranges[j]) /\ (ColumnFails(ranges[j].Start) \/ ColumnFails(ranges[j].End)) }

\* C8 as stated: no decode failure of a boundary is fatal; the failing side is
\* zero, the other side is decoded, every range that passes the guard yields
\* its pair, and the scan is built.
C8_NoDecodeFailureIsFatal ==
    /\ err.kind \notin {"InvalidKey", "DecodeOneError"}
    /\ \A k \in ExtractorScans : src[k].Extractor.timeRanges = ExpectedPairs

\* C8 as amended: a row-handle decode failure is never fatal (that side is
\* zero, the other side is decoded, the pair is emitted and later ranges are
\* processed); a failure to decode the datetime column of a decoded handle
\* aborts the scan build with that error, and is the only decode failure that
\* does.
C8_OnlyRowKeyFailureIsTolerated ==
    /\ err.kind # "InvalidKey"
    /\ err.kind = "DecodeOneError" => (ScanFailed /\ FatalSides # {})
    /\ (ScanFailed /\ ScanVerdict(executors[i + 1]) = NoErr) => err.kind = "DecodeOneError"
    /\ \A k \in ExtractorScans :
          /\ FatalSides = {}
          /\ src[k].Extractor.timeRanges = ExpectedPairs

\* Two ranges, the first with a start whose row key does not decode.
C8_Witness ==
    /\ Returned
    /\ Len(ranges) = 2
    /\ ~RowKeyDecodes(ranges[1].Start) /\ StartLongEnough(ranges[1])
    /\ RowKeyDecodes(ranges[1].End)
    /\ ExtractorScans = {1}
    /\ Len(src[1].Extractor.timeRanges) = 2
    /\ src[1].Extractor.timeRanges[1][1] = 0
    /\ src[1].Extractor.timeRanges[1][2] # 0

CatalogNameOf(tableId, colId) ==
    LET t == CHOOSE u \in InfoSchemaTables : u.ID = tableId
    IN  t.Columns[CHOOSE m \in 1..Len(t.Columns) : t.Columns[m].ID = colId].Name

\* C9: the schema of an extractor scan lists the requested columns in request
\* order, so that a column reference with index i is rebound to the schema
\* column of the i-th requested column, and the names handed to Extract are
\* aligned with the schema.
C9_SchemaFollowsRequestOrder ==
    /\ \A k \in ExtractorScans :
          /\ Len(src[k].schema) = Len(executors[k].Columns)
          /\ \A j \in 1..Len(src[k].schema) : src[k].schema[j].ID = executors[k].Columns[j]
    /\ \A c \in 1..Len(calls) :
          /\ \A j \in 1..Len(calls[c].predicates) :
                LET p == calls[c].predicates[j]
                IN  \E m \in 1..Len(calls[c].schema) :
                       /\ calls[c].schema[m].UniqueID = p.UniqueID
                       /\ calls[c].schema[m].ID = executors[calls[c].scan].Columns[p.Index + 1]
          /\ \A m \in 1..Len(calls[c].names) :
                calls[c].names[m] = CatalogNameOf(src[calls[c].scan].Table, calls[c].schema[m].ID)
====
